---- MODULE Spec2Model ----
(***************************************************************************)
(* Rainbow resonant filter bank (Coirt/Prism): the host call               *)
(* Rainbow::process, the resampling pipeline Audio::nChannelProcess and    *)
(* the filter engine Filter::process_audio_block.                          *)
(*                                                                         *)
(* Floating point history cells are abstracted to {0, 1}: 0 is 0.0f and 1  *)
(* is "some non-zero value".  The input block is taken to be non-silent,   *)
(* so a filter recursion leaves the three cells it addresses non-zero.     *)
(***************************************************************************)
EXTENDS Integers, FiniteSets, Sequences, TLC

\* ---- dimensions, scaled down from Rainbow.hpp (6, 11, 20, 20) ----
NUM_CHANNELS == 2
NUM_SCALES == 2
NUM_FILTS == 2
NUM_SCALEBANKS == 2
\* ---- resample buffer sizes and converter yields ----
InCap == 1
OutCap == 2
MaxNeed == 1
MaxYield == 2
\* ---- patches loaded in one run ----
MaxLoads == 1

\* ---- samples of one internal block ----
NUM_SAMPLES == 2
\* ---- morph positions are multiples of 1 / MorphDen ----
MorphDen == 2
\* ---- channel level scalars are 0 .. MaxLevel ----
MaxLevel == 2
\* ---- the long step of a sweep of the Q control ----
QStride == 64
\* ---- the ceiling of c1 (1.30899581) in model units ----
C1Ceil == 2

\* number of lanes of the pipeline
NUM_LANES == 6
\* the value process_scale_bank exempts from clamping
UNSET_BANK == 255
\* range and default of the Q control
Q_MAX == 4095
Q_DEFAULT == 2048
\* the crossfade region of the Q control: the two thresholds, and the
\* width that spans them
CROSSFADE_MIN == 1830
CROSSFADE_MAX == 3630
CROSSFADE_WIDTH == CROSSFADE_MAX - CROSSFADE_MIN
\* sizes of exp_4096 and twopass_calibration
EXP_SIZE == 4096
CAL_SIZE == 3380

NUM_SCALENOTES == NUM_FILTS + 1
USER_BANK == NUM_SCALEBANKS - 1

Channels == 0 .. (NUM_CHANNELS - 1)
Lanes == 0 .. (NUM_LANES - 1)
Banks == 0 .. (NUM_SCALEBANKS - 1)
FilterSetting == {"TwoPass", "OnePass", "Bpre"}
FilterTypes == {"MAXQ", "BPRE"}

\* <<note, scale, bank>> triples a loaded patch can hold for a channel: the
\* last valid indices, the first invalid ones, and the bank value 0xFF
Patches ==
    { <<NUM_FILTS - 1, NUM_SCALES - 1, USER_BANK>>,
      <<NUM_FILTS, NUM_SCALES - 1, 0>>,
      <<0, NUM_SCALES, NUM_SCALEBANKS>>,
      <<0, 0, UNSET_BANK>> }

\* float buf[NUM_CHANNELS][NUM_SCALES][NUM_FILTS][3], row major
ChanSize == NUM_SCALES * NUM_FILTS * 3
BufSize == NUM_CHANNELS * ChanSize
Cells == 0 .. (BufSize - 1)
Addr(c, s, n, k) == c * ChanSize + (s * NUM_FILTS + n) * 3 + k

Min(a, b) == IF a < b THEN a ELSE b

\* the sample positions of one internal block
Samples == 0 .. (NUM_SAMPLES - 1)
\* lane value of an engine input channel nothing was written to yet
NoLane == NUM_LANES

VARIABLES
    pc,
    \* Rainbow module
    currBank, currFilter, changeBankTrigger,
    \* main.io
    USER_SCALE_CHANGED, CHANGED_BANK, NEW_BANK, LOCK_ON, FILTER_SWITCH,
    \* Filter
    scale_bank, old_scale_bank, scale, note,
    filter_type, new_filter_type, filter_type_changed, filter_mode,
    buf, buf_a, c_hiq, c_loq, bpretuning,
    \* rotation
    motion_morphpos, motion_fadeto_note, motion_fadeto_scale,
    \* Audio
    inputChannels, outputChannels, inChannels, outChannels,
    nInputBuffer, nOutputBuffer,
    \* observation: the (scale, note) indices the last block's algorithm used
    used,
    \* the number of patches loaded so far
    loads,
    \* observation: the active type changed at the top of the current block
    switched,
    \* observation: the algorithm the last processed block ran
    ran,
    \* observation: 0 no user-scale signal is waiting for a block, 1 one was
    \* raised in the current host call, 2 one was raised in an earlier call
    usc_age,
    \* nInputFrames[l][j]: "new" if the converter of lane l produced sample j
    \* in the current cycle, "old" if the value is of an earlier cycle,
    \* "none" if the converter never wrote it
    nInputFrames,
    \* io->in[c]: the lane whose converted block channel c holds, and whether
    \* it was written in the current cycle
    io_in,
    \* nOutputFrames[l][i]: the engine output channels of the current block
    \* summed into the sample (cur), and whether the sample also holds a
    \* contribution of an earlier block (carried)
    nOutputFrames,
    \* observation: the output ports a voltage was written to in this call
    emitted,
    \* observation: the engine invocations of this host call, and whether
    \* output lane 0 was empty after the input push
    cycles, cycle_due,
    \* filter_out[0 .. 2*NUM_CHANNELS-1] (one sample), io->out[j] in units of
    \* 1 / MorphDen
    filter_out, io_out,
    \* levels->channel_level as the last block read it
    channel_level,
    \* Q value read by filter_twopass, and its ratio_a in units of
    \* 1 / CROSSFADE_WIDTH
    qc, ratio_a,
    \* qval_a, qval_b of filter_twopass, and the indices into exp_4096 and
    \* twopass_calibration the last block's algorithm used
    qval_a, qval_b, exp_index, cal_index,
    \* io->INPUT_CLIP
    INPUT_CLIP,
    \* observation: the channels whose last input block held a sample at or
    \* above INPUT_LED_CLIP_LEVEL
    clip_in,
    \* observation: the frequency coefficient c1 the last block's recursion
    \* used, in units of 1.30899581 / C1Ceil
    c1,
    \* observation: the channels whose morph-destination output the last
    \* block's algorithm wrote
    dest_fresh,
    \* observation: per output lane, the runs of its converter in the last
    \* cycle, and whether one of them ran before the lane's last write
    conv_runs, conv_early,
    \* observation: the lanes the last populateInputBuffer pushed a frame to
    pushed

rainbowVars == <<currBank, currFilter, changeBankTrigger>>
ioVars == <<USER_SCALE_CHANGED, CHANGED_BANK, NEW_BANK, LOCK_ON, FILTER_SWITCH>>
bankVars == <<scale_bank, old_scale_bank, scale, note>>
typeVars == <<filter_type, new_filter_type, filter_type_changed, filter_mode>>
histVars == <<buf, buf_a>>
coefVars == <<c_hiq, c_loq, bpretuning>>
motionVars == <<motion_morphpos, motion_fadeto_note, motion_fadeto_scale>>
audioVars == <<inputChannels, outputChannels, inChannels, outChannels,
               nInputBuffer, nOutputBuffer>>
frameVars == <<nInputFrames, io_in, nOutputFrames, conv_runs, conv_early>>
cycleVars == <<emitted, cycles, cycle_due>>
blendVars == <<filter_out, channel_level, io_out>>
blockVars == <<qc, ratio_a, qval_a, qval_b, exp_index, cal_index,
              INPUT_CLIP, clip_in, c1, dest_fresh>>
vars == <<pc, rainbowVars, ioVars, bankVars, typeVars, histVars, coefVars,
          motionVars, audioVars, used, loads, switched, ran, usc_age, pushed,
          frameVars, cycleVars, blendVars, blockVars>>

Init ==
    /\ pc = "host"
    /\ currBank = 0 /\ currFilter = "TwoPass"
    /\ changeBankTrigger = TRUE
    /\ USER_SCALE_CHANGED = FALSE /\ CHANGED_BANK = FALSE /\ NEW_BANK = 0
    /\ LOCK_ON = [i \in Channels |-> FALSE]
    /\ FILTER_SWITCH = "TwoPass"
    /\ scale_bank = [i \in Channels |-> 0]
    /\ old_scale_bank = [i \in Channels |-> UNSET_BANK]
    /\ scale = [i \in Channels |-> 0]
    /\ note = [i \in Channels |-> 0]
    /\ filter_type = "MAXQ" /\ new_filter_type = "MAXQ"
    /\ filter_type_changed = FALSE /\ filter_mode = "TWOPASS"
    /\ buf = [a \in Cells |-> 0]
    /\ buf_a = [a \in Cells |-> 0]
    /\ c_hiq = [i \in Channels |-> <<"null", 0>>]
    /\ c_loq = [i \in Channels |-> <<"null", 0>>]
    /\ bpretuning = [i \in Channels |-> <<"null", 0>>]
    /\ motion_morphpos = [i \in Channels |-> 0]
    /\ motion_fadeto_note = [i \in Channels |-> 0]
    /\ motion_fadeto_scale = [i \in Channels |-> 0]
    /\ inputChannels = 0 /\ outputChannels = 0
    /\ inChannels = 2 /\ outChannels = 1
    /\ nInputBuffer = [l \in Lanes |-> 0]
    /\ nOutputBuffer = [l \in Lanes |-> 0]
    /\ used = {}
    /\ loads = 0
    /\ switched = FALSE
    /\ ran = "none"
    /\ usc_age = 0
    /\ pushed = {}
    /\ nInputFrames = [l \in Lanes |-> [j \in Samples |-> "none"]]
    /\ io_in = [c \in Lanes |-> [lane |-> NoLane, cur |-> FALSE]]
    /\ nOutputFrames = [l \in Lanes |-> [i \in Samples |-> [cur |-> {}, carried |-> FALSE]]]
    /\ emitted = {}
    /\ cycles = 0 /\ cycle_due = FALSE
    /\ filter_out = [j \in 0 .. (2 * NUM_CHANNELS - 1) |-> 0]
    /\ io_out = [j \in Channels |-> 0]
    /\ channel_level = [j \in Channels |-> 0]
    /\ qc = Q_DEFAULT /\ ratio_a = CROSSFADE_WIDTH
    /\ qval_a = 0 /\ qval_b = 0 /\ exp_index = {} /\ cal_index = {}
    /\ INPUT_CLIP = FALSE
    /\ clip_in = {}
    /\ c1 = 0
    /\ dest_fresh = {}
    /\ conv_runs = [l \in Lanes |-> 0]
    /\ conv_early = [l \in Lanes |-> FALSE]

\* ------------------------------------------------------------------------
\* Rainbow::process, up to main.prepare()
\* ------------------------------------------------------------------------

\* rack::dsp::SchmittTrigger::process on a 0/1 button value
TriggerFires(high, v) == (~high) /\ v = 1
TriggerNext(high, v) == v = 1

\* upd: the expander message carries new coefficients; bankKnob, filtKnob:
\* knob positions read in this call (the user may have turned the knobs
\* since the last call, so the stored BANK_PARAM value is not kept); sw: the
\* bank switch button value; tog: the channels whose lock button fired
RainbowProcess(upd, bankKnob, filtKnob, sw, tog) ==
    /\ pc = "host"
    /\ emitted' = {} /\ cycles' = 0 /\ cycle_due' = FALSE
    /\ UNCHANGED <<frameVars, blendVars, blockVars>>
    /\ UNCHANGED <<ran, loads, switched, pushed>>
    /\ usc_age' = IF upd THEN 1 ELSE IF usc_age > 0 THEN 2 ELSE 0
    /\ LET filterChanged == filtKnob # currFilter
           toZero == filterChanged /\ filtKnob = "Bpre" /\ currBank = USER_BANK
           curr1 == IF toZero THEN 0 ELSE currBank
           next1 == IF toZero THEN 0 ELSE bankKnob
           new1 == IF toZero THEN 0 ELSE NEW_BANK
           fired == TriggerFires(changeBankTrigger, sw)
           refused == FILTER_SWITCH = "Bpre" /\ next1 = USER_BANK
       IN  /\ USER_SCALE_CHANGED' = upd
           /\ LOCK_ON' = [i \in Channels |-> IF i \in tog THEN ~LOCK_ON[i] ELSE LOCK_ON[i]]
           /\ currFilter' = filtKnob
           /\ changeBankTrigger' = TriggerNext(changeBankTrigger, sw)
           /\ IF fired
                THEN IF refused
                       THEN /\ CHANGED_BANK' = FALSE
                            /\ NEW_BANK' = new1
                            /\ currBank' = curr1
                       ELSE /\ CHANGED_BANK' = TRUE
                            /\ NEW_BANK' = next1
                            /\ currBank' = next1
                ELSE /\ CHANGED_BANK' = FALSE
                     /\ NEW_BANK' = new1
                     /\ currBank' = curr1
           /\ FILTER_SWITCH' = filtKnob
    /\ pc' = "prepare"
    /\ used' = {}
    /\ UNCHANGED <<bankVars, typeVars, histVars, coefVars, motionVars, audioVars>>

\* Rainbow::dataFromJson followed by main.load_from_state(): a loaded patch
\* sets the note, scale and bank of the first k channels to stored integers
dataFromJson(k, n, s, b) ==
    /\ pc = "host"
    /\ UNCHANGED <<frameVars, cycleVars, blendVars, blockVars>>
    /\ loads < MaxLoads
    /\ loads' = loads + 1
    /\ UNCHANGED <<ran, switched, usc_age, pushed>>
    /\ note' = [i \in Channels |-> IF i < k THEN n ELSE note[i]]
    /\ scale' = [i \in Channels |-> IF i < k THEN s ELSE scale[i]]
    /\ scale_bank' = [i \in Channels |-> IF i < k THEN b ELSE scale_bank[i]]
    /\ UNCHANGED <<pc, rainbowVars, ioVars, old_scale_bank, typeVars, histVars,
                   coefVars, motionVars, audioVars, used>>

\* ------------------------------------------------------------------------
\* main.prepare(): the calls into the Filter made before the audio step
\* ------------------------------------------------------------------------

\* a change_filter_type that switches the active type at once
change_filter_type_Immediate(newtype) ==
    /\ IF new_filter_type # newtype
         THEN filter_type_changed' = TRUE /\ new_filter_type' = newtype
         ELSE UNCHANGED <<filter_type_changed, new_filter_type>>
    /\ filter_type' = newtype

\* Filter::change_filter_type
change_filter_type(newtype) ==
    /\ IF new_filter_type # newtype
         THEN filter_type_changed' = TRUE /\ new_filter_type' = newtype
         ELSE UNCHANGED <<filter_type_changed, new_filter_type>>
    /\ filter_type' = filter_type

\* the switch reader of the controller: the filter selector picks the
\* one-pass/two-pass mode and requests the MAXQ or BPRE coefficient type
param_read_switches ==
    /\ pc = "prepare"
    /\ UNCHANGED <<frameVars, cycleVars, blendVars, blockVars>>
    /\ UNCHANGED <<ran, loads, switched, usc_age, pushed>>
    /\ filter_mode' = IF FILTER_SWITCH = "TwoPass" THEN "TWOPASS" ELSE "ONEPASS"
    /\ change_filter_type(IF FILTER_SWITCH = "Bpre" THEN "BPRE" ELSE "MAXQ")
    /\ pc' = "motion"
    /\ UNCHANGED <<rainbowVars, ioVars, bankVars, histVars, coefVars,
                   motionVars, audioVars, used>>

\* the rotation collaborator: morph position and morph destination of the
\* channels in cs (m = 0: not morphing)
update_motion(cs, m, fn, fs) ==
    /\ pc = "motion"
    /\ UNCHANGED <<frameVars, cycleVars, blendVars, blockVars>>
    /\ UNCHANGED <<ran, loads, switched, usc_age, pushed>>
    /\ motion_morphpos' = [i \in Channels |-> IF i \in cs THEN m ELSE motion_morphpos[i]]
    /\ motion_fadeto_note' = [i \in Channels |-> IF i \in cs THEN fn ELSE motion_fadeto_note[i]]
    /\ motion_fadeto_scale' = [i \in Channels |-> IF i \in cs THEN fs ELSE motion_fadeto_scale[i]]
    /\ pc' = "bank_change"
    /\ UNCHANGED <<rainbowVars, ioVars, bankVars, typeVars, histVars,
                   coefVars, audioVars, used>>

\* a process_bank_change that does not test the lock flag
BankAfterChange_IgnoreLock(i) ==
    IF CHANGED_BANK THEN NEW_BANK ELSE scale_bank[i]

\* Filter::process_bank_change
BankAfterChange(i) ==
    IF CHANGED_BANK /\ ~LOCK_ON[i] THEN NEW_BANK ELSE scale_bank[i]

process_bank_change ==
    /\ pc = "bank_change"
    /\ UNCHANGED <<frameVars, cycleVars, blendVars, blockVars>>
    /\ UNCHANGED <<ran, loads, switched, usc_age, pushed>>
    /\ scale_bank' = [i \in Channels |-> BankAfterChange(i)]
    /\ pc' = "audio"
    /\ UNCHANGED <<rainbowVars, ioVars, old_scale_bank, scale, note, typeVars,
                   histVars, coefVars, motionVars, audioVars, used>>

\* ------------------------------------------------------------------------
\* Audio::nChannelProcess
\* ------------------------------------------------------------------------

NormIn(ic) == IF ic \in {0, 1, 2} THEN 2 ELSE IF ic = 3 THEN 3 ELSE 6
\* an output normalisation whose default is the 6-channel mode
NormOut_DefaultSix(oc) == IF oc = 0 THEN 1 ELSE IF oc = 1 THEN 2 ELSE 6

\* lines 39-52
NormOut(oc) == IF oc = 0 THEN 1 ELSE IF oc = 1 THEN 2 ELSE IF oc = 2 THEN 6 ELSE 1

\* a push that does not test full()
PushedLane_NoBackpressure(l, n) ==
    IF l < n THEN nInputBuffer[l] + 1 ELSE nInputBuffer[l]

\* the push of one host frame into lane l
PushedLane(l, n) ==
    IF l < n /\ nInputBuffer[l] < InCap THEN nInputBuffer[l] + 1 ELSE nInputBuffer[l]

\* nChannelProcess line 58 run although frames are queued on lane 0
CycleDue_Always == TRUE

\* nChannelProcess line 58: the processing cycle runs in this host call
CycleDue == nOutputBuffer[0] = 0

\* Rainbow::process sets the channel counts (ic, oc), nChannelProcess
\* normalises them and calls populateInputBuffer
populateInputBuffer(ic, oc) ==
    /\ pc = "audio"
    /\ UNCHANGED <<ran, loads, switched, usc_age>>
    /\ UNCHANGED <<frameVars, emitted, cycles, blendVars, blockVars>>
    /\ cycle_due' = (nOutputBuffer[0] = 0)
    /\ pushed' = { l \in Lanes : PushedLane(l, NormIn(ic)) # nInputBuffer[l] }
    /\ inputChannels' = ic /\ outputChannels' = oc
    /\ inChannels' = NormIn(ic) /\ outChannels' = NormOut(oc)
    /\ nInputBuffer' = [l \in Lanes |-> PushedLane(l, NormIn(ic))]
    /\ pc' = IF CycleDue THEN "resample" ELSE "output"
    /\ UNCHANGED <<rainbowVars, ioVars, bankVars, typeVars, histVars, coefVars,
                   motionVars, nOutputBuffer, used>>

\* a lane whose converter runs in resampleInput (line 95)
Fed(l) == nInputBuffer[l] > 0

\* the rows of io->in that lane i's block is written to (lines 107-119)
Targets(i) ==
    IF inChannels = 2 THEN {i, 2 + i, 4 + i}
    ELSE IF inChannels = 3 THEN {i, 1 + i}
    ELSE {i}

\* the lanes written to row c, in the order of the loop of line 94
Writers(c) == { i \in Lanes : Fed(i) /\ c \in Targets(i) }
LastWriter(c) == CHOOSE i \in Writers(c) : \A k \in Writers(c) : k <= i

\* a row index outside io->in[NUM_CHANNELS]
WritesOutside == \E i \in Lanes : Fed(i) /\ \E t \in Targets(i) : t >= NUM_LANES

\* a converted sample of an earlier cycle stays where the converter left it
Aged(f) == IF f = "new" THEN "old" ELSE f

\* Audio::resampleInput: every non-empty lane's converter consumes the
\* frames it needs for one internal block (need), at most what is buffered,
\* and produces got samples of the block; all NUM_SAMPLES positions of
\* nInputFrames are then copied into io->in
resampleInput(need, got) ==
    /\ pc = "resample"
    /\ UNCHANGED <<ran, loads, switched, usc_age, pushed>>
    /\ UNCHANGED <<nOutputFrames, conv_runs, conv_early, cycleVars, blendVars,
                   blockVars>>
    /\ nInputBuffer' = [l \in Lanes |-> nInputBuffer[l] - Min(nInputBuffer[l], need)]
    /\ nInputFrames' = [l \in Lanes |-> [j \in Samples |->
          IF Fed(l) /\ j < got THEN "new" ELSE Aged(nInputFrames[l][j])]]
    /\ io_in' = [c \in Lanes |->
          IF Writers(c) # {} THEN [lane |-> LastWriter(c), cur |-> TRUE]
          ELSE [lane |-> io_in[c].lane, cur |-> FALSE]]
    /\ \/ pc' = "block"
       \/ WritesOutside /\ pc' = "fault"
    /\ UNCHANGED <<rainbowVars, ioVars, bankVars, typeVars, histVars, coefVars,
                   motionVars, inputChannels, outputChannels, inChannels,
                   outChannels, nOutputBuffer, used>>

\* a sample of nOutputFrames at the start of a cycle: nothing clears it
Carried(f) == [cur |-> {}, carried |-> f.carried \/ f.cur # {}]

\* the lane a stereo sample is added to (lines 135-139)
StereoLane(chan, i) == IF i % 2 = 1 THEN 1 ELSE 0

\* the engine output channels added to nOutputFrames[l][i] (lines 130-147)
Added(l, i) ==
    IF outputChannels = 1 THEN { chan \in Lanes : StereoLane(chan, i) = l }
    ELSE IF outputChannels = 2 THEN {}
    ELSE IF l = 0 THEN Lanes ELSE {}

\* nOutputFrames[l][i] after the loop: assigned in 6-channel mode, added to
\* what the sample held otherwise
Accumulated(l, i) ==
    IF outputChannels = 2 THEN [cur |-> {l}, carried |-> FALSE]
    ELSE [cur |-> Added(l, i), carried |-> Carried(nOutputFrames[l][i]).carried]

\* the steps of the two loops of lines 128-129, in order: step
\* chan * NUM_SAMPLES + i writes sample i of channel chan and then runs the
\* converter of lane chan (lines 149-153)
OutSteps == 0 .. (NUM_LANES * NUM_SAMPLES - 1)
StepChan(t) == t \div NUM_SAMPLES
StepSample(t) == t % NUM_SAMPLES
\* the lane step t writes to
StepLane(t) ==
    IF outputChannels = 1 THEN StereoLane(StepChan(t), StepSample(t))
    ELSE IF outputChannels = 2 THEN StepChan(t)
    ELSE 0
ConverterRuns(l) == Cardinality({ t \in OutSteps : StepChan(t) = l })
ConvertedEarly(l) ==
    \E t \in OutSteps, u \in OutSteps : StepChan(t) = l /\ StepLane(u) = l /\ u > t

\* Audio::populateAndResampleOutputBuffer: the block is added into
\* nOutputFrames and every lane's converter appends frames to its FIFO (y
\* for lane 0, z for the other lanes), at most the free space of the FIFO
populateAndResampleOutputBuffer(y, z) ==
    /\ pc = "out_resample"
    /\ UNCHANGED <<ran, loads, switched, usc_age, pushed>>
    /\ UNCHANGED <<nInputFrames, io_in, cycleVars, blendVars, blockVars>>
    /\ nOutputFrames' = [l \in Lanes |-> [i \in Samples |-> Accumulated(l, i)]]
    /\ conv_runs' = [l \in Lanes |-> ConverterRuns(l)]
    /\ conv_early' = [l \in Lanes |-> ConvertedEarly(l)]
    /\ nOutputBuffer' = [l \in Lanes |->
          Min(OutCap, nOutputBuffer[l] + IF l = 0 THEN y ELSE z)]
    /\ pc' = "output"
    /\ UNCHANGED <<rainbowVars, ioVars, bankVars, typeVars, histVars, coefVars,
                   motionVars, inputChannels, outputChannels, inChannels,
                   outChannels, nInputBuffer, used>>

\* a readiness test that looks at lane 0 only
bufferReady_FirstLane == nOutputBuffer[0] > 0

\* nChannelProcess lines 65-68 with Audio::processOutputBuffer
bufferReady == \A l \in Lanes : l < outChannels => nOutputBuffer[l] > 0

processOutputBuffer ==
    /\ pc = "output"
    /\ UNCHANGED <<ran, loads, switched, usc_age, pushed>>
    /\ UNCHANGED <<frameVars, cycles, cycle_due, blendVars, blockVars>>
    /\ nOutputBuffer' = [l \in Lanes |->
          IF nOutputBuffer[0] > 0 /\ bufferReady /\ l < outChannels
            THEN nOutputBuffer[l] - 1 ELSE nOutputBuffer[l]]
    /\ emitted' = IF nOutputBuffer[0] > 0 /\ bufferReady
                    THEN { l \in Lanes : l < outChannels } ELSE {}
    /\ pc' = "host"
    /\ UNCHANGED <<rainbowVars, ioVars, bankVars, typeVars, histVars, coefVars,
                   motionVars, inputChannels, outputChannels, inChannels,
                   outChannels, nInputBuffer, used>>

\* ------------------------------------------------------------------------
\* Filter::process_audio_block
\* ------------------------------------------------------------------------

\* lines 502-504: a pending type becomes the active one
\* a block top that keeps the active type
InstalledType_Kept == filter_type

\* lines 502-504: the type the block runs under
InstalledType == IF filter_type_changed THEN new_filter_type ELSE filter_type

apply_filter_type ==
    /\ pc = "block"
    /\ cycles' = cycles + 1
    /\ UNCHANGED <<frameVars, emitted, cycle_due, blendVars, blockVars>>
    /\ UNCHANGED <<ran, loads, usc_age, pushed>>
    /\ switched' = (filter_type_changed /\ new_filter_type # filter_type)
    /\ filter_type' = InstalledType
    /\ pc' = "scale_bank"
    /\ UNCHANGED <<rainbowVars, ioVars, bankVars, new_filter_type,
                   filter_type_changed, filter_mode, histVars, coefVars,
                   motionVars, audioVars, used>>

\* Filter::process_scale_bank, channel i
ClampBank(b) == IF b >= NUM_SCALEBANKS /\ b # UNSET_BANK THEN NUM_SCALEBANKS - 1 ELSE b
ClampScale(s) == IF s >= NUM_SCALES THEN NUM_SCALES - 1 ELSE s

Invalidated(i) ==
    \/ ClampBank(scale_bank[i]) # old_scale_bank[i]
    \/ filter_type_changed
    \/ USER_SCALE_CHANGED

\* the cells of channel i the clearing loop writes: ff+j, ff+j+1, ff+j+2
\* for j below NUM_SCALES * NUM_FILTS, ff = (float *)buf[i]
ClearedCells(i) ==
    { i * ChanSize + j + d : j \in 0 .. (NUM_SCALES * NUM_FILTS - 1), d \in 0 .. 2 }

ClearHistory(b) ==
    [a \in Cells |-> IF \E i \in Channels : Invalidated(i) /\ a \in ClearedCells(i)
                       THEN 0 ELSE b[a]]

\* the first-pass history is not written by process_scale_bank
ClearFirstPass(b) == b

HiqTable(i) ==
    LET sb == ClampBank(scale_bank[i])
    IN  IF ~Invalidated(i) THEN c_hiq[i]
        ELSE IF filter_type = "MAXQ"
               THEN IF sb = NUM_SCALEBANKS - 1 THEN <<"user_scale_bank", sb>>
                                              ELSE <<"c_maxq", sb>>
        ELSE IF filter_mode # "TWOPASS" /\ filter_type = "BPRE"
               THEN <<"c_bpre_hi", sb>>
        ELSE c_hiq[i]

BpreSelected(i) ==
    Invalidated(i) /\ filter_type # "MAXQ" /\ filter_mode # "TWOPASS" /\ filter_type = "BPRE"

process_scale_bank ==
    /\ pc = "scale_bank"
    /\ UNCHANGED <<frameVars, cycleVars, blendVars, blockVars>>
    /\ UNCHANGED <<ran, loads, switched, usc_age, pushed>>
    /\ scale_bank' = [i \in Channels |-> ClampBank(scale_bank[i])]
    /\ scale' = [i \in Channels |-> ClampScale(scale[i])]
    /\ old_scale_bank' = [i \in Channels |->
          IF Invalidated(i) THEN ClampBank(scale_bank[i]) ELSE old_scale_bank[i]]
    /\ buf' = ClearHistory(buf)
    /\ buf_a' = ClearFirstPass(buf_a)
    /\ c_hiq' = [i \in Channels |-> HiqTable(i)]
    /\ c_loq' = [i \in Channels |->
          IF BpreSelected(i) THEN <<"c_bpre_lo", ClampBank(scale_bank[i])>> ELSE c_loq[i]]
    /\ bpretuning' = [i \in Channels |->
          IF BpreSelected(i) THEN <<"c_maxq", ClampBank(scale_bank[i])>> ELSE bpretuning[i]]
    /\ pc' = "filter"
    /\ UNCHANGED <<rainbowVars, ioVars, note, typeVars, motionVars, audioVars, used>>

\* the (channel, scale, note) filters one block evaluates: the source filter
\* of every channel and the morph destination of every morphing channel
SourceFilter(i) == <<i, scale[i], note[i]>>
DestFilter(i) == <<i, motion_fadeto_scale[i], motion_fadeto_note[i]>>
Evaluated ==
    { SourceFilter(i) : i \in Channels }
      \cup { DestFilter(i) : i \in { c \in Channels : motion_morphpos[c] # 0 } }

\* the recursion on buf[c][s][n][0..2] with a non-silent input
InObject(f) == Addr(f[1], f[2], f[3], 2) < BufSize
Recursed(b) ==
    [a \in Cells |->
        IF \E f \in Evaluated : \E k \in 0 .. 2 : a = Addr(f[1], f[2], f[3], k)
          THEN 1 ELSE b[a]]

\* nudge_filter_num of filter_onepass and filter_bpre
Nudge(n) == IF n + 1 > NUM_FILTS THEN NUM_FILTS ELSE n + 1

\* after a filter: an access outside the history array may end the program
AfterFilter ==
    \/ pc' = "finalize"
    \/ (\E f \in Evaluated : ~InObject(f)) /\ pc' = "fault"

\* the output sample of the filter of scale s, note n: one value per pitch
FilterValue(s, n) == s * NUM_SCALENOTES + n + 1

\* filter_out after a filter: slot j holds the source filter of channel j,
\* slot j + NUM_CHANNELS the destination filter of a morphing channel j
FilterOut ==
    [j \in 0 .. (2 * NUM_CHANNELS - 1) |->
        IF j < NUM_CHANNELS THEN FilterValue(scale[j], note[j])
        ELSE IF motion_morphpos[j - NUM_CHANNELS] > 0
               THEN FilterValue(motion_fadeto_scale[j - NUM_CHANNELS],
                                motion_fadeto_note[j - NUM_CHANNELS])
        ELSE filter_out[j]]

\* a crossfade that rises with q
RatioA_Rising(q) ==
    IF q < CROSSFADE_MIN THEN CROSSFADE_WIDTH
    ELSE IF q > CROSSFADE_MAX THEN 0
    ELSE q - CROSSFADE_MIN

\* ratio_a of filter_twopass (lines 173-181), times CROSSFADE_WIDTH
RatioA(q) ==
    IF q < CROSSFADE_MIN THEN CROSSFADE_WIDTH
    ELSE IF q > CROSSFADE_MAX THEN 0
    ELSE CROSSFADE_WIDTH - (q - CROSSFADE_MIN)

\* qval_a of filter_twopass (lines 149-152)
QvalA(q) == IF 2 * q > Q_MAX THEN Q_MAX ELSE 2 * q

\* a second-pass Q that rises ten times as fast
QvalB_Steep(q) == IF q < 3900 THEN 1000 ELSE 1000 + (q - 3900) * 150

\* qval_b of filter_twopass (lines 155-159)
QvalB(q) == IF q < 3900 THEN 1000 ELSE 1000 + (q - 3900) * 15

\* (uint32_t)(v / 1.4f) + 200, the index into exp_4096
ExpIndex(v) == ((v * 5) \div 7) + 200

\* an overload flag that is never reset
ClipAfter_Sticky(hot) == INPUT_CLIP \/ hot # {}

\* io->INPUT_CLIP after a filter: reset at its start, raised by a sample at
\* or above INPUT_LED_CLIP_LEVEL of any channel
ClipAfter(hot) == hot # {}

\* the hard limit of c1 in filter_twopass and filter_onepass
ClampC1(raw) == IF raw > C1Ceil THEN C1Ceil ELSE raw

\* the channels whose destination filter an algorithm evaluates
Morphing == { c \in Channels : motion_morphpos[c] # 0 }

\* qv: the Q value q->update() left in q->qval; hot: the channels whose
\* input block holds a sample at or above INPUT_LED_CLIP_LEVEL; raw: the
\* product of table value, tuning nudge and shift and FREQSCALE
filter_twopass(qv, hot, raw) ==
    /\ pc = "filter"
    /\ UNCHANGED <<frameVars, cycleVars, channel_level, io_out>>
    /\ filter_out' = FilterOut
    /\ dest_fresh' = Morphing
    /\ qc' = qv /\ ratio_a' = RatioA(qv)
    /\ qval_a' = QvalA(qv) /\ qval_b' = QvalB(qv)
    /\ exp_index' = {ExpIndex(QvalA(qv)), ExpIndex(QvalB(qv))}
    /\ cal_index' = {QvalB(qv) - 900}
    /\ INPUT_CLIP' = ClipAfter(hot)
    /\ clip_in' = hot
    /\ c1' = ClampC1(raw)
    /\ UNCHANGED <<loads, switched, usc_age, pushed>>
    /\ ran' = "twopass"
    /\ filter_mode = "TWOPASS"
    /\ buf_a' = Recursed(buf_a)
    /\ buf' = Recursed(buf)
    /\ used' = { <<"hist", f[2], f[3]>> : f \in Evaluated }
                 \cup { <<"coef", f[2], f[3]>> : f \in Evaluated }
    /\ AfterFilter
    /\ UNCHANGED <<rainbowVars, ioVars, bankVars, typeVars, coefVars,
                   motionVars, audioVars>>

filter_onepass(qv, hot, raw) ==
    /\ pc = "filter"
    /\ UNCHANGED <<frameVars, cycleVars, channel_level, io_out>>
    /\ filter_out' = FilterOut
    /\ dest_fresh' = Morphing
    /\ qc' = qv
    /\ UNCHANGED <<ratio_a, qval_a, qval_b>>
    /\ exp_index' = {ExpIndex(qv)}
    /\ cal_index' = {}
    /\ INPUT_CLIP' = ClipAfter(hot)
    /\ clip_in' = hot
    /\ c1' = ClampC1(raw)
    /\ UNCHANGED <<loads, switched, usc_age, pushed>>
    /\ ran' = "onepass"
    /\ filter_mode # "TWOPASS" /\ filter_type = "MAXQ"
    /\ buf' = Recursed(buf)
    /\ used' = { <<"hist", f[2], f[3]>> : f \in Evaluated }
                 \cup { <<"coef", f[2], f[3]>> : f \in Evaluated }
    /\ AfterFilter
    /\ UNCHANGED <<rainbowVars, ioVars, bankVars, typeVars, buf_a, coefVars,
                   motionVars, audioVars>>

\* raw: c1 as interpolated from the c_hiq and c_loq tables (lines 445, 458);
\* filter_bpre applies no limit to it
filter_bpre(hot, raw) ==
    /\ pc = "filter"
    /\ UNCHANGED <<frameVars, cycleVars, channel_level, io_out>>
    /\ filter_out' = FilterOut
    /\ dest_fresh' = Morphing
    /\ UNCHANGED <<qc, ratio_a, qval_a, qval_b>>
    /\ exp_index' = {}
    /\ cal_index' = {}
    /\ INPUT_CLIP' = ClipAfter(hot)
    /\ clip_in' = hot
    /\ c1' = raw
    /\ UNCHANGED <<loads, switched, usc_age, pushed>>
    /\ ran' = "bpre"
    /\ filter_mode # "TWOPASS" /\ filter_type # "MAXQ"
    /\ buf' = Recursed(buf)
    /\ used' = { <<"hist", f[2], f[3]>> : f \in Evaluated }
                 \cup { <<"coef", f[2], f[3]>> : f \in Evaluated }
                 \cup { <<"coef", f[2], Nudge(f[3])>> : f \in Evaluated }
    /\ AfterFilter
    /\ UNCHANGED <<rainbowVars, ioVars, bankVars, typeVars, buf_a, coefVars,
                   motionVars, audioVars>>

\* a blend with the two weights exchanged
Blended_Swapped(mp, j) ==
    IF mp[j] = 0 THEN filter_out[j] * MorphDen
    ELSE filter_out[j] * mp[j] + filter_out[j + NUM_CHANNELS] * (MorphDen - mp[j])

\* f_blended of channel j (lines 529-533), times MorphDen; mp: the morph
\* positions the blend reads
Blended(mp, j) ==
    IF mp[j] = 0 THEN filter_out[j] * MorphDen
    ELSE filter_out[j] * (MorphDen - mp[j]) + filter_out[j + NUM_CHANNELS] * mp[j]

\* lines 522-553: rotation->update_morph(), morph blend, levels, and the
\* reset of the two flags; lev: levels->channel_level; mp: the morph
\* positions update_morph leaves
finalize_block(lev, mp) ==
    /\ pc = "finalize"
    /\ UNCHANGED <<frameVars, cycleVars, filter_out, blockVars>>
    /\ motion_morphpos' = mp
    /\ channel_level' = lev
    /\ io_out' = [j \in Channels |-> Blended(mp, j) * lev[j]]
    /\ UNCHANGED <<ran, loads, pushed>>
    /\ switched' = FALSE
    /\ usc_age' = 0
    /\ filter_type_changed' = FALSE
    /\ USER_SCALE_CHANGED' = FALSE
    /\ pc' = "out_resample"
    /\ UNCHANGED <<rainbowVars, CHANGED_BANK, NEW_BANK, LOCK_ON, FILTER_SWITCH,
                   bankVars, filter_type, new_filter_type, filter_mode,
                   histVars, coefVars, motion_fadeto_note, motion_fadeto_scale,
                   audioVars, used>>

\* ------------------------------------------------------------------------
\* Specifications
\* ------------------------------------------------------------------------

LockToggles == {{}} \cup { {i} : i \in Channels }
IcInputs == {0, 1, 2, 3, 6}
OcInputs == {0, 1, 2, 3}

\* the steps of a host call that take no input from the environment
Engine ==
    \/ param_read_switches
    \/ process_bank_change
    \/ apply_filter_type
    \/ process_scale_bank
    \/ finalize_block([j \in Channels |-> 1], motion_morphpos)
    \/ processOutputBuffer

\* the converters of a host call when every converter delivers a whole
\* block and all lanes yield alike
Convert ==
    \/ \E need \in 1 .. MaxNeed : resampleInput(need, NUM_SAMPLES)
    \/ \E y \in 1 .. MaxYield : populateAndResampleOutputBuffer(y, y)

\* the rotation collaborator morphs all channels to the last note of the
\* last scale, or not at all
Motion ==
    \E m \in {0, 1} : update_motion(Channels, m, NUM_FILTS - 1, NUM_SCALES - 1)

\* the filter selector is turned; bank knob, bank switch and expander rest
TypeCall ==
    \E filtKnob \in FilterSetting, tog \in LockToggles :
        RainbowProcess(FALSE, 0, filtKnob, 0, tog)

\* the bank knob is turned and the bank switch pressed; the filter selector
\* rests in its default position
BankCall ==
    \E bankKnob \in Banks, sw \in {0, 1}, tog \in LockToggles :
        RainbowProcess(FALSE, bankKnob, "TwoPass", sw, tog)

\* the scale expander sends coefficients; the knobs rest
UserScaleCall ==
    \E upd \in BOOLEAN, filtKnob \in {"TwoPass", "OnePass"} :
        RainbowProcess(upd, 0, filtKnob, 0, {})

\* a host call with every control at rest
IdleCall == RainbowProcess(FALSE, 0, "TwoPass", 0, {})

\* a patch is loaded between two host calls
LoadPatch ==
    \E k \in 1 .. NUM_CHANNELS, p \in Patches : dataFromJson(k, p[1], p[2], p[3])

\* the filter selector is turned, nothing else
SelectorCall ==
    \E filtKnob \in FilterSetting : RainbowProcess(FALSE, 0, filtKnob, 0, {})

\* filter-type changes
Next ==
    \/ TypeCall
    \/ Motion
    \/ populateInputBuffer(0, 0)
    \/ Engine
    \/ filter_twopass(qc, {}, c1)
    \/ filter_onepass(qc, {}, c1)
    \/ filter_bpre({}, c1)
    \/ Convert

Spec == Init /\ [][Next]_vars

\* bank changes
NextBank ==
    \/ BankCall
    \/ Motion
    \/ populateInputBuffer(0, 0)
    \/ Engine
    \/ filter_twopass(qc, {}, c1)
    \/ Convert

SpecBank == Init /\ [][NextBank]_vars

\* user scale changes
NextUser ==
    \/ UserScaleCall
    \/ Motion
    \/ populateInputBuffer(0, 0)
    \/ Engine
    \/ filter_twopass(qc, {}, c1)
    \/ filter_onepass(qc, {}, c1)
    \/ Convert

SpecUser == Init /\ [][NextUser]_vars

\* loaded patches
NextPatch ==
    \/ SelectorCall
    \/ LoadPatch
    \/ update_motion(Channels, 0, 0, 0)
    \/ populateInputBuffer(0, 0)
    \/ Engine
    \/ filter_twopass(qc, {}, c1)
    \/ filter_onepass(qc, {}, c1)
    \/ filter_bpre({}, c1)
    \/ Convert

SpecPatch == Init /\ [][NextPatch]_vars

\* the pipeline under changing channel counts
NextAudio ==
    \/ IdleCall
    \/ update_motion(Channels, 0, 0, 0)
    \/ \E ic \in IcInputs, oc \in OcInputs : populateInputBuffer(ic, oc)
    \/ Engine
    \/ filter_twopass(qc, {}, c1)
    \/ Convert

SpecAudio == Init /\ [][NextAudio]_vars

\* the input side: changing input channel counts, and input converters
\* that may deliver fewer samples than a block
NextInput ==
    \/ IdleCall
    \/ update_motion(Channels, 0, 0, 0)
    \/ \E ic \in IcInputs : populateInputBuffer(ic, 0)
    \/ Engine
    \/ filter_twopass(qc, {}, c1)
    \/ \E need \in 1 .. MaxNeed, got \in 0 .. NUM_SAMPLES : resampleInput(need, got)
    \/ \E y \in 1 .. MaxYield : populateAndResampleOutputBuffer(y, y)

SpecInput == Init /\ [][NextInput]_vars

\* the output side: changing output selectors, and output converters whose
\* lanes may yield differently
NextOutput ==
    \/ IdleCall
    \/ update_motion(Channels, 0, 0, 0)
    \/ \E oc \in OcInputs : populateInputBuffer(0, oc)
    \/ Engine
    \/ filter_twopass(qc, {}, c1)
    \/ \E need \in 1 .. MaxNeed : resampleInput(need, NUM_SAMPLES)
    \/ \E y \in 1 .. MaxYield, z \in 0 .. MaxYield :
          populateAndResampleOutputBuffer(y, z)

SpecOutput == Init /\ [][NextOutput]_vars

\* morph positions and channel levels
MorphTargets == {{0}, Channels}
Levels == [Channels -> 0 .. MaxLevel]
\* update_morph leaves the positions alone or moves all channels to one
MorphAfter == {motion_morphpos} \cup { [j \in Channels |-> k] : k \in 0 .. MorphDen }

NextBlend ==
    \/ IdleCall
    \/ \E cs \in MorphTargets, m \in 0 .. MorphDen :
          update_motion(cs, m, NUM_FILTS - 1, NUM_SCALES - 1)
    \/ populateInputBuffer(0, 0)
    \/ Engine
    \/ \E lev \in Levels, mp \in MorphAfter : finalize_block(lev, mp)
    \/ filter_twopass(qc, {}, c1)
    \/ resampleInput(1, NUM_SAMPLES)
    \/ populateAndResampleOutputBuffer(1, 1)

SpecBlend == Init /\ [][NextBlend]_vars

\* the Q control swept through its range: between two blocks it rests,
\* moves one step or moves QStride steps
QSweep ==
    { q \in {qc - QStride, qc - 1, qc, qc + 1, qc + QStride} :
        0 <= q /\ q <= Q_MAX }

NextCrossfade ==
    \/ IdleCall
    \/ update_motion(Channels, 0, 0, 0)
    \/ populateInputBuffer(0, 0)
    \/ Engine
    \/ \E q \in QSweep : filter_twopass(q, {}, c1)
    \/ resampleInput(1, NUM_SAMPLES)
    \/ populateAndResampleOutputBuffer(1, 1)

SpecCrossfade == Init /\ [][NextCrossfade]_vars

\* the Q control swept through its range under the two-pass and under the
\* one-pass setting: the filter selector is set before the first block and
\* rests afterwards
PassCall ==
    /\ ran = "none"
    /\ \E filtKnob \in {"TwoPass", "OnePass"} : RainbowProcess(FALSE, 0, filtKnob, 0, {})

RestCall ==
    /\ ran # "none"
    /\ RainbowProcess(FALSE, 0, currFilter, 0, {})

NextIndex ==
    \/ PassCall
    \/ RestCall
    \/ update_motion(Channels, 0, 0, 0)
    \/ populateInputBuffer(0, 0)
    \/ Engine
    \/ \E q \in QSweep : filter_twopass(q, {}, c1)
    \/ \E q \in QSweep : filter_onepass(q, {}, c1)
    \/ resampleInput(1, NUM_SAMPLES)
    \/ populateAndResampleOutputBuffer(1, 1)

SpecIndex == Init /\ [][NextIndex]_vars

\* overload and frequency coefficient: the selector moves, the input block
\* may hold hot samples, the coefficient product takes any value
RawCoefs == 0 .. (C1Ceil + 1)

NextCoef ==
    \/ SelectorCall
    \/ update_motion(Channels, 0, 0, 0)
    \/ populateInputBuffer(0, 0)
    \/ Engine
    \/ \E hot \in SUBSET Channels, raw \in RawCoefs : filter_twopass(qc, hot, raw)
    \/ \E hot \in SUBSET Channels, raw \in RawCoefs : filter_onepass(qc, hot, raw)
    \/ \E hot \in SUBSET Channels, raw \in RawCoefs : filter_bpre(hot, raw)
    \/ resampleInput(1, NUM_SAMPLES)
    \/ populateAndResampleOutputBuffer(1, 1)

SpecCoef == Init /\ [][NextCoef]_vars

\* filter selector, bank knob and bank switch together
KnobCall ==
    \E bankKnob \in Banks, filtKnob \in FilterSetting, sw \in {0, 1} :
        RainbowProcess(FALSE, bankKnob, filtKnob, sw, {})

NextKnobs ==
    \/ KnobCall
    \/ update_motion(Channels, 0, 0, 0)
    \/ populateInputBuffer(0, 0)
    \/ Engine
    \/ filter_twopass(qc, {}, c1)
    \/ filter_onepass(qc, {}, c1)
    \/ filter_bpre({}, c1)
    \/ resampleInput(1, NUM_SAMPLES)
    \/ populateAndResampleOutputBuffer(1, 1)

SpecKnobs == Init /\ [][NextKnobs]_vars

\* ------------------------------------------------------------------------
\* Properties
\* ------------------------------------------------------------------------

ChannelCells(c) == { c * ChanSize + o : o \in 0 .. (ChanSize - 1) }

\* C1: when process_scale_bank runs for a channel whose scale_bank differs
\* from its previously resolved bank (a bank-change event reached the
\* unlocked channel), every cell buf[c][scale][note][0..2] of the channel is
\* zero afterwards, for all scale x note combinations.
C1_BankChangeClearsAllHistory ==
    [][\A c \in Channels :
          (pc = "scale_bank" /\ old_scale_bank[c] \in Banks
             /\ scale_bank[c] # old_scale_bank[c])
            => \A a \in ChannelCells(c) : buf'[a] = 0]_vars

\* C2: when the active algorithm changed at the top of a block, the history
\* of every channel is entirely zero right after process_scale_bank.
C2_TypeChangeClearsAllHistory ==
    (pc = "filter" /\ switched) => \A a \in Cells : buf[a] = 0

\* C3: whenever process_scale_bank invalidates a channel's history, the
\* first-pass history buf_a of that channel is zero afterwards as well.
C3_FirstPassHistoryCleared ==
    [][\A c \in Channels :
          (pc = "scale_bank" /\ Invalidated(c))
            => \A a \in ChannelCells(c) : buf_a'[a] = 0]_vars

\* C4: a user-scale signal raised in a host call that processed no block
\* still zeroes the history at the next processed block: right after that
\* block's process_scale_bank the cells the clearing loop covers are zero.
C4_DeferredUserScaleClears ==
    (pc = "filter" /\ usc_age = 2)
      => \A c \in Channels : \A a \in ClearedCells(c) : buf[a] = 0

\* C5: the active filter_type changes only in the first step of
\* process_audio_block; change_filter_type leaves it alone and raises the
\* pending flag whenever it records a new target.
C5_TypeAppliedOnlyAtBlockTop ==
    [][/\ (filter_type' # filter_type => pc = "block")
       /\ (pc = "prepare" =>
             /\ filter_type' = filter_type
             /\ (new_filter_type' # new_filter_type => filter_type_changed'))]_vars

\* C5 witness: a requested type has just become active at the top of a block
C5_Witness ==
    pc = "scale_bank" /\ filter_type_changed /\ switched /\ filter_type = "BPRE"

\* C7: process_bank_change gives every unlocked channel NEW_BANK and keeps
\* every locked channel's bank when the event is set, and modifies no
\* channel's bank when it is not set.
C7_BankChangeFrame ==
    [][pc = "bank_change" =>
          /\ CHANGED_BANK =>
               \A i \in Channels :
                  /\ ~LOCK_ON[i] => scale_bank'[i] = NEW_BANK
                  /\ LOCK_ON[i] => scale_bank'[i] = scale_bank[i]
          /\ ~CHANGED_BANK => scale_bank' = scale_bank]_vars

\* C7 witness: the event was applied with one channel locked on another
\* bank and one channel unlocked
C7_Witness ==
    /\ pc = "audio" /\ CHANGED_BANK
    /\ \E i, j \in Channels :
          /\ LOCK_ON[i] /\ scale_bank[i] # NEW_BANK
          /\ ~LOCK_ON[j] /\ scale_bank[j] = NEW_BANK

\* C8: after process_scale_bank every channel's scale_bank is a valid bank
\* index and every channel's scale a valid scale index.
C8_ResolvedIndicesInRange ==
    pc = "filter" =>
        \A i \in Channels :
            /\ scale_bank[i] \in 0 .. (NUM_SCALEBANKS - 1)
            /\ scale[i] \in 0 .. (NUM_SCALES - 1)

\* C9: every note index a filter algorithm addresses the history with lies
\* in 0 .. NUM_FILTS-1.
C9_NoteIndicesInRange ==
    \A u \in used : u[1] = "hist" => u[3] \in 0 .. (NUM_FILTS - 1)

\* C10: in a host call every active lane whose buffer is not full gets
\* exactly one frame, every other lane none; no other step adds frames, and
\* no lane ever holds more than its capacity.
C10_InputBackpressure ==
    [][/\ pc = "audio" =>
             \A l \in Lanes :
                nInputBuffer'[l] = nInputBuffer[l]
                   + (IF l < inChannels' /\ nInputBuffer[l] < InCap THEN 1 ELSE 0)
       /\ pc # "audio" => \A l \in Lanes : nInputBuffer'[l] <= nInputBuffer[l]
       /\ \A l \in Lanes : nInputBuffer'[l] <= InCap]_vars

\* C10 witness: one host call pushed a frame to an active lane and skipped
\* another active lane that was full
C10_Witness ==
    /\ pc \in {"resample", "output"}
    /\ \E l, k \in Lanes :
          /\ l < inChannels /\ l \notin pushed /\ nInputBuffer[l] = InCap
          /\ k < inChannels /\ k \in pushed

\* the algorithm process_audio_block dispatches to (part_000:512-520)
SelectedAlgorithm ==
    IF filter_mode = "TWOPASS" THEN "twopass"
    ELSE IF filter_type = "MAXQ" THEN "onepass" ELSE "bpre"

\* C6: the algorithm a block runs follows the active filter type installed
\* by the pending change: a block about to run another algorithm than the
\* block before it (a switch to or from two-pass included) has installed a
\* new filter type at its top and has cleared the history that
\* process_scale_bank clears.
C6_AlgorithmSwitchInstalledAndCleared ==
    (pc = "filter" /\ ran # "none" /\ SelectedAlgorithm # ran)
        => /\ switched
           /\ \A i \in Channels : \A a \in ClearedCells(i) : buf[a] = 0

\* the steps of a host call inside the processing cycle
CycleSteps == {"resample", "block", "scale_bank", "filter", "finalize", "out_resample"}

\* C11: the processing cycle, and with it the engine, runs exactly once
\* in a host call whose input push found output lane 0 empty and not at all
\* in any other call; while the cycle runs lane 0 holds no frame.
C11_CycleOncePerDueCall ==
    /\ cycles <= 1
    /\ pc \in CycleSteps => (cycle_due /\ nOutputBuffer[0] = 0)
    /\ pc \in {"finalize", "out_resample"} => cycles = 1
    /\ pc = "output" => cycles = (IF cycle_due THEN 1 ELSE 0)

C11_Witness ==
    pc = "output" /\ cycles = 0 /\ ~cycle_due /\ nOutputBuffer[0] > 0 /\ ran # "none"

\* C12: when the engine is entered, every sample position of every active
\* input lane holds a sample the converter produced in this cycle.
C12_FullFreshBlock ==
    pc = "block"
      => \A l \in Lanes : l < inChannels
           => \A j \in Samples : nInputFrames[l][j] = "new"

C14_NormalisationTotal ==
    /\ inputChannels \in {0, 1, 2} => inChannels = 2
    /\ inputChannels = 3 => inChannels = 3
    /\ inputChannels \notin {0, 1, 2, 3} => inChannels = 6
    /\ outputChannels = 0 => outChannels = 1
    /\ outputChannels = 1 => outChannels = 2
    /\ outputChannels = 2 => outChannels = 6
    /\ outputChannels \notin {0, 1, 2} => outChannels = 1

C14_Witness ==
    inputChannels = 6 /\ inChannels = 6 /\ outputChannels = 3 /\ outChannels = 1

\* C15: with 0, 1 or 2 host input channels, when the engine is entered
\* the even engine input channels hold lane 0's block of this cycle and
\* the odd ones lane 1's.
C15_TwoLaneMapping ==
    (pc = "block" /\ inputChannels \in {0, 1, 2})
      => \A c \in Lanes : io_in[c] = [lane |-> c % 2, cur |-> TRUE]

\* C16: with 3 host input channels, when the engine is entered every
\* engine input channel holds data of this cycle, and each of the lanes
\* 0, 1, 2 is held by exactly the two channels of one adjacent pair.
C16_ThreeLaneMirroring ==
    (pc = "block" /\ inputChannels = 3)
      => /\ \A c \in Lanes : io_in[c].cur
         /\ \A l \in 0 .. 2 :
              \E c \in Lanes : c + 1 \in Lanes
                 /\ { d \in Lanes : io_in[d].lane = l } = {c, c + 1}

\* C17: in mono mode every sample of output lane 0 is, after the block was
\* added, the sum of the six engine output channels of this block and
\* holds nothing of an earlier block.
C17_MonoSumOfThisBlock ==
    [][(pc = "out_resample" /\ outputChannels = 0)
         => \A i \in Samples :
              nOutputFrames'[0][i] = [cur |-> Lanes, carried |-> FALSE]]_vars

\* C18: in stereo mode, for every sample of a block, one of the lanes 0, 1
\* receives the even engine output channels and the other the odd ones.
C18_StereoSplitByChannel ==
    [][(pc = "out_resample" /\ outputChannels = 1)
         => \A i \in Samples :
              {nOutputFrames'[0][i].cur, nOutputFrames'[1][i].cur}
                = { { c \in Lanes : c % 2 = 0 }, { c \in Lanes : c % 2 = 1 } }]_vars

\* C19: the block output of channel j is the level times the source output
\* at morph position 0, the level times the destination output at morph
\* position 1, and the level times the linear blend in between (io_out
\* and the blend in units of 1 / MorphDen).
C19_MorphBlend ==
    [][pc = "finalize" =>
         \A j \in Channels :
            LET m == motion_morphpos'[j]
                src == filter_out[j]
                dst == filter_out[j + NUM_CHANNELS]
                L == channel_level'[j]
            IN  /\ m = 0 => io_out'[j] = L * src * MorphDen
                /\ m = MorphDen => io_out'[j] = L * dst * MorphDen
                /\ (0 < m /\ m < MorphDen)
                     => io_out'[j] = L * ((MorphDen - m) * src + m * dst)]_vars

C19_Witness ==
    /\ pc = "out_resample"
    /\ motion_morphpos[0] = MorphDen /\ motion_morphpos[NUM_CHANNELS - 1] = 0
    /\ filter_out[0] # filter_out[NUM_CHANNELS]
    /\ channel_level[0] = MaxLevel
    /\ io_out[0] = MaxLevel * MorphDen * filter_out[NUM_CHANNELS]

\* C20: in two-pass mode ratio_a is 1 for a Q value at or below
\* CROSSFADE_MIN, 0 at or above CROSSFADE_MAX, and falls strictly whenever
\* the Q value rises within the two thresholds (ratio_a in units of
\* 1 / CROSSFADE_WIDTH); two blocks that both ran filter_twopass are
\* compared.
C20_CrossfadeRatio ==
    [][pc = "filter" =>
         /\ qc' <= CROSSFADE_MIN => ratio_a' = CROSSFADE_WIDTH
         /\ qc' >= CROSSFADE_MAX => ratio_a' = 0
         /\ (ran = "twopass" /\ CROSSFADE_MIN <= qc /\ qc < qc'
                /\ qc' <= CROSSFADE_MAX)
              => ratio_a' < ratio_a
         /\ (ran = "twopass" /\ CROSSFADE_MIN <= qc' /\ qc' < qc
                /\ qc <= CROSSFADE_MAX)
              => ratio_a' > ratio_a
         /\ 0 <= ratio_a' /\ ratio_a' <= CROSSFADE_WIDTH]_vars

C20_Witness ==
    pc = "finalize" /\ qc = CROSSFADE_MAX /\ ratio_a = 0


\* C21: after each of the three algorithms INPUT_CLIP is true exactly when
\* the block held a sample at or above INPUT_LED_CLIP_LEVEL on some channel:
\* it is recomputed from false in every block, and a channel with such a
\* sample is filtered all the same (its source filter's history and output
\* are written).
C21_InputClipPerBlock ==
    [][pc = "filter" =>
         /\ INPUT_CLIP' = (clip_in' # {})
         /\ \A c \in clip_in' :
              /\ filter_out'[c] = FilterValue(scale[c], note[c])
              /\ \A k \in 0 .. 2 : buf'[Addr(c, scale[c], note[c], k)] = 1]_vars

\* C21 witness: filter_bpre has run on a block whose last channel alone
\* held a hot sample; the flag is up and that channel was filtered
C21_Witness ==
    /\ pc = "finalize" /\ ran = "bpre"
    /\ clip_in = {NUM_CHANNELS - 1} /\ INPUT_CLIP
    /\ filter_out[NUM_CHANNELS - 1] = FilterValue(scale[NUM_CHANNELS - 1], note[NUM_CHANNELS - 1])

\* C22: under every algorithm the coefficient c1 used in the recursion is
\* at most 1.30899581 (C1Ceil model units), whatever the table value, the
\* nudge, the shift and the frequency scale.
C22_CoefficientCeiling ==
    [][pc = "filter" => c1' <= C1Ceil]_vars

\* C23: in a cycle the output converter of every lane runs exactly once, and
\* only after every write of the block to that lane.
C23_ConverterOncePerCycle ==
    [][pc = "out_resample" =>
         \A l \in Lanes : conv_runs'[l] = 1 /\ ~conv_early'[l]]_vars

\* C24: process_scale_bank leaves the history, the resolved bank and the
\* table selection of a channel alone when none of the triggers holds for
\* it, and a filter changes a channel's history only at the cells of that
\* channel's current and morph-destination notes.
C24_HistoryFrame ==
    [][\A c \in Channels :
          /\ (pc = "scale_bank" /\ ~Invalidated(c)) =>
                /\ \A a \in ChannelCells(c) : buf'[a] = buf[a] /\ buf_a'[a] = buf_a[a]
                /\ old_scale_bank'[c] = old_scale_bank[c]
                /\ c_hiq'[c] = c_hiq[c] /\ c_loq'[c] = c_loq[c]
                /\ bpretuning'[c] = bpretuning[c]
          /\ pc = "filter" =>
                \A a \in ChannelCells(c) :
                   buf'[a] # buf[a] =>
                      \E f \in {SourceFilter(c)} \cup
                                 (IF motion_morphpos[c] # 0 THEN {DestFilter(c)} ELSE {}) :
                         /\ f[2] \in 0 .. (NUM_SCALES - 1)
                         /\ f[3] \in 0 .. (NUM_FILTS - 1)
                         /\ \E k \in 0 .. 2 : a = Addr(c, f[2], f[3], k)]_vars

\* C25: whenever the finalizer blends a channel at a non-zero morph
\* position, the destination output it reads was written by the algorithm
\* of the same block.
C25_DestinationFresh ==
    [][pc = "finalize" =>
         \A j \in Channels : motion_morphpos'[j] # 0 => j \in dest_fresh]_vars

\* C26: whenever no change is pending the active type is the requested one;
\* a request always becomes the recorded target, and a request for the
\* recorded target changes nothing; after every processed block the pending
\* flag is down and the active type is the last requested one.
C26_TypeFollowsRequest ==
    [][/\ ~filter_type_changed' => filter_type' = new_filter_type'
       /\ pc = "prepare" =>
            LET req == IF FILTER_SWITCH = "Bpre" THEN "BPRE" ELSE "MAXQ"
            IN  /\ new_filter_type' = req
                /\ req = new_filter_type =>
                     UNCHANGED <<filter_type, new_filter_type, filter_type_changed>>
       /\ pc = "finalize" =>
            ~filter_type_changed' /\ filter_type' = new_filter_type']_vars

\* C26 witness: a block has been processed after a request for BPRE, which
\* is now the active type with nothing pending
C26_Witness ==
    /\ pc = "out_resample" /\ ~filter_type_changed
    /\ filter_type = "BPRE" /\ new_filter_type = "BPRE" /\ ran = "bpre"

\* C27: when resampleInput runs, no lane that holds frames is copied to an
\* engine input channel outside 0..5.
C27_InputWritesInRange ==
    pc = "resample" => ~WritesOutside

\* C28: the two-pass Q values are min(2q, 4095) and 1000 or
\* 1000 + 15 (q - 3900); every index into exp_4096 lies in 200..3125 and
\* inside the table, and the index into twopass_calibration lies in
\* 100..3025 and inside the table; the one-pass index is floor(q / 1.4) + 200.
C28_TableIndicesInRange ==
    /\ ran = "twopass" =>
         /\ qval_a = Min(2 * qc, Q_MAX)
         /\ qval_b = (IF qc < 3900 THEN 1000 ELSE 1000 + 15 * (qc - 3900))
         /\ exp_index = {((qval_a * 10) \div 14) + 200, ((qval_b * 10) \div 14) + 200}
         /\ cal_index = {qval_b - 900}
    /\ ran = "onepass" => exp_index = {((qc * 10) \div 14) + 200}
    /\ \A i \in exp_index : 200 <= i /\ i <= 3125 /\ i < EXP_SIZE
    /\ \A i \in cal_index : 100 <= i /\ i <= 3025 /\ i < CAL_SIZE

\* C28 witness: a two-pass block at the top of the Q range used the highest
\* indices
C28_Witness ==
    /\ ran = "twopass" /\ qc = Q_MAX
    /\ 3125 \in exp_index /\ cal_index = {3025}

\* C29: a call that turns the filter selector to Bpre while the current
\* bank is the user bank hands the engine a bank-change event to bank 0,
\* with the bank switch pressed or not.
C29_BpreForcesBankZero ==
    [][(pc = "host" /\ currFilter # "Bpre" /\ currFilter' = "Bpre"
          /\ currBank = USER_BANK)
         => CHANGED_BANK' /\ NEW_BANK' = 0]_vars

\* C30: at the end of a call the filter selector is never Bpre while the
\* current bank is the user bank.
C30_NoBpreOnUserBank ==
    ~(FILTER_SWITCH = "Bpre" /\ currBank = USER_BANK)

====
